---------------------------- MODULE Spec2Model ----------------------------
(***************************************************************************)
(* zinnia: the playback pipeline of src/main.rs (run, write_and_loop,      *)
(* generate) as three threads over mpsc channels, a Barrier and an         *)
(* AtomicBool; the voices and mixing functions of src/sound.rs, the        *)
(* filters of src/sound/filter.rs and Note::key_number of src/music.rs,    *)
(* each under a specification of its own (Spec, MixSpec, SinSpec,          *)
(* FilterSpec, SoundSpec, PeriodSpec, MusicSpec).                          *)
(*                                                                         *)
(* Atomics are Relaxed in the source; a load is modelled as reading the    *)
(* latest store.  f32 values are modelled as exact rationals, with inf,    *)
(* -inf and NaN; f32 rounding is not modelled.  An overflowing u32          *)
(* subtraction and a slice index out of bounds have outcomes of their own: *)
(* a panic, and for the subtraction also the wrapped value.                *)
(***************************************************************************)
EXTENDS Integers, Sequences, FiniteSets, TLC

(***************************************************************************)
(* Bounds of the model.                                                    *)
(***************************************************************************)
\* main.rs:162 sends 8 voices; the model sends MaxVoices of them.
MaxVoices == 2
\* Generation-loop iterations (one sample each) taken while running is set.
MaxTicks == 4
\* The hardware grants a period size in 1..MaxPeriodSize frames.
MaxPeriodSize == 2
\* The hardware grants a rate in 1..MaxRate frames per second.
MaxRate == 2

(***************************************************************************)
(* Program constants.                                                      *)
(***************************************************************************)
\* mpsc::sync_channel(1)
PeriodChannelBound == 1
\* Barrier::new(2)
BarrierThreads == 2
\* hwp.set_channels(1): an exact request, granted as asked or refused
RequestedChannels == 1
\* Duration::from_millis(1000)
DurationMillis == 1000
\* SountTest::new(freq, 7000.0, ..)
Amplitude == 7000
\* const MAX_CONCURRENT: u32 = 4
MAX_CONCURRENT == 4

VARIABLES
    mpc,          \* run: position of the owning thread
    wpc,          \* write_and_loop: position of the writer thread
    gpc,          \* generate: position of the generation thread
    running,      \* Arc<AtomicBool>
    init,         \* Arc<Barrier>: [count, generation_id]
    hw,           \* the HwParams installed on the PCM (NoParams before)
    param_ch,     \* mpsc::channel::<HardwareParams>: messages in flight
    params,       \* run: the HardwareParams received (NoParams before)
    period_size,  \* generate: hwp.period_size captured at spawn
    sound_ch,     \* mpsc::channel of voices: messages in flight
    sound_i,      \* run: index of the voice loop
    sounds,       \* generate: the live voices
    vals,         \* generate: the period being filled
    period_ch,    \* mpsc::sync_channel(1): periods buffered
    wvals,        \* write_and_loop: the period received last
    wResult,      \* what the writer thread returned
    gResult,      \* what the generation thread returned
    outcome,      \* what run returned
    sent,         \* history: periods whose send completed
    received,     \* history: periods whose recv completed
    gen_iters,    \* history: generation-loop iterations begun
    last_recover, \* history: outcome of the last try_recover
    intake_left,  \* history: voices left queued by the last try_recv step
    pruned,       \* history: the voices removed from the registry
    sent_log,     \* history: the periods sent, in the order of the sends
    write_log,    \* history: the calls of io.writei that returned: which
                  \* received period (n), its samples, Ok or Err
    lib_sounds,   \* sound.rs: a Vec<Box<dyn Sound>> handed to mix / mix_fixed
    mix_kind,     \* which of mix_fixed / mix produced mix_out ("none" before)
    mix_channel,  \* the channel argument of that call
    mix_out,      \* the f32 it returned, as a fraction <<num, den>>
    sinusoid,     \* sound.rs: a Sinusoid (phase, step, amplitude per channel)
    sin_op,       \* the last call on it: "new", "generate" or "tick"
    sin_out,      \* the f32 its last generate returned
    sin_gens,     \* history: generate calls on it so far
    sin_ticks,    \* history: tick calls on it so far
    sin_passed,   \* history: the tick_count its last call, a generate, gave
                  \* to the filter chain (-1 after any other call)
    filter,       \* sound/filter.rs: a filter ([kind |-> "none"] before)
    f_op,         \* the last call on it: "new" or "apply" ("none" before);
                  \* "panic" or "wrapped" after a u32 overflow
    f_in,         \* the arguments of its last apply: val, tick, channel
    f_out,        \* the f32 that apply returned
    sound,        \* sound.rs: a Box<dyn Sound> ([kind |-> "none"] before)
    snd_op,       \* the last call on it: "new", "generate" or "tick";
                  \* "panic" when generate indexed outside the buffer
    snd_channel,  \* the channel argument of its last generate
    snd_out,      \* the f32 that generate returned
    snd_ticks,    \* history: tick() calls on it so far
    note,         \* music.rs: a Note ([name |-> "none"] before)
    key,          \* what note.key_number() returned ("none" before)
    cperiod,      \* sound.rs: a CachedPeriod ([kind |-> "none"] before)
    cp_op,        \* the last call on it: "new", "generate", "tick", or
                  \* "panic" when generate indexed outside the table
    cp_out,       \* the f32 its last generate returned
    cp_gens       \* history: generate calls on it so far

pipeVars ==
    << mpc, wpc, gpc, running, init, hw, param_ch, params, period_size,
       sound_ch, sound_i, sounds, vals, period_ch, wvals, wResult, gResult,
       outcome, sent, received, gen_iters, last_recover, intake_left, pruned,
       sent_log, write_log >>

\* the history of the periods sent and written
logVars ==
    << sent_log, write_log >>

mixVars ==
    << lib_sounds, mix_kind, mix_channel, mix_out >>

sinVars ==
    << sinusoid, sin_op, sin_out, sin_gens, sin_ticks, sin_passed >>

filterVars ==
    << filter, f_op, f_in, f_out >>

soundVars ==
    << sound, snd_op, snd_channel, snd_out, snd_ticks >>

musicVars ==
    << note, key >>

periodVars ==
    << cperiod, cp_op, cp_out, cp_gens >>

libVars ==
    << mixVars, sinVars, filterVars, soundVars, musicVars, periodVars >>

\* what a call on the mixing functions leaves alone
notMixVars ==
    << pipeVars, sinVars, filterVars, soundVars, musicVars,
       periodVars >>

\* what a call on a Sinusoid leaves alone
notSinVars ==
    << pipeVars, mixVars, filterVars, soundVars, musicVars,
       periodVars >>

\* what a call on a filter leaves alone
notFilterVars ==
    << pipeVars, mixVars, sinVars, soundVars, musicVars,
       periodVars >>

\* what a call on a Box<dyn Sound> leaves alone
notSoundVars ==
    << pipeVars, mixVars, sinVars, filterVars, musicVars,
       periodVars >>

\* what a call on a Note leaves alone
notMusicVars ==
    << pipeVars, mixVars, sinVars, filterVars, soundVars,
       periodVars >>

\* what a call on a CachedPeriod leaves alone
notPeriodVars ==
    << pipeVars, mixVars, sinVars, filterVars, soundVars, musicVars >>

vars ==
    << pipeVars, libVars >>

NoParams == [channels |-> 0, rate |-> 0, period_size |-> 0]

(***************************************************************************)
(* Pure helpers.                                                           *)
(***************************************************************************)

\* sound.rs duration_to_ticks: (duration.as_secs_f32() * rate as f32) as Ticks
duration_to_ticks(millis, rate) ==
    (millis * rate) \div 1000

\* Ticker::new
TickerNew(duration) ==
    [tick_count |-> 0, duration |-> duration]

Ticker_is_complete_gt(t) ==
    t.tick_count > t.duration

\* Ticker::is_complete
Ticker_is_complete(t) ==
    t.tick_count >= t.duration

\* Ticker::tick
Ticker_tick(t) ==
    [t EXCEPT !.tick_count = @ + 1]

\* sin over a phase counted in quarter cycles
SinQ(phase) ==
    CASE phase % 4 = 0 -> 0
      [] phase % 4 = 1 -> 1
      [] phase % 4 = 2 -> 0
      [] OTHER -> -1

\* T = i16: the sum of two samples in the release build (wrapping)
AddT(a, b) ==
    ((a + b + 32768) % 65536) - 32768

\* The sample a voice emits at its current tick: sin(phase) * amplitude
VoiceSample(v) ==
    SinQ(v.tick_count) * Amplitude

\* HardwareParams::from(&hwp)
HardwareParamsFrom(h) ==
    [channels |-> h.channels, rate |-> h.rate, period_size |-> h.period_size]

RECURSIVE FoldTick(_, _)
\* sounds.iter_mut().fold(T::default(), |acc, s| acc + s.tick())
FoldTick(ss, acc) ==
    IF ss = <<>> THEN acc
    ELSE FoldTick(Tail(ss), AddT(acc, VoiceSample(Head(ss))))

\* every voice after its s.tick()
TickAll(ss) ==
    [i \in 1..Len(ss) |-> Ticker_tick(ss[i])]

NotComplete(v) ==
    ~Ticker_is_complete(v)

\* sounds.into_iter().filter(|s| !s.complete()).collect()
Prune(ss) ==
    SelectSeq(ss, NotComplete)

PeriodFull_short(vs, ps) ==
    Len(vs) + 1 = ps \/ Len(vs) = ps

\* vals.len() == period_size
PeriodFull(vs, ps) ==
    Len(vs) = ps

(***************************************************************************)
(* Channel ends: an end is alive until the thread owning it drops it.      *)
(***************************************************************************)
Halted == mpc = "panicked"

ParamTxAlive_kept ==
    wpc \in {"w_idle", "w_open", "w_negotiate", "w_send_params",
             "w_barrier", "w_barrier_wait", "w_setup", "w_loop", "w_recv",
             "w_write", "w_recover", "w_done"}

\* param_tx lives in the writer until drop(param_tx) or the thread's end
ParamTxAlive == wpc \in {"w_idle", "w_open", "w_negotiate", "w_send_params",
                         "w_barrier", "w_barrier_wait", "w_setup"}

\* param_rx lives in run until drop(param_rx)
ParamRxAlive == mpc \in {"m_spawn_writer", "m_recv_params", "m_barrier",
                         "m_barrier_wait", "m_spawn_gen"}

\* period_rx lives in the writer thread until it ends
PeriodRxAlive == wpc # "w_done"

\* period_tx is moved from run into the generation thread and lives to its end
PeriodTxAlive == gpc # "g_done"

\* sound_rx is moved from run into the generation thread and lives to its end
SoundRxAlive == gpc # "g_done"

(***************************************************************************)
(* Init: the state at the top of run, channels and barrier created.        *)
(***************************************************************************)
PipeInit ==
    /\ mpc = "m_spawn_writer"
    /\ wpc = "w_idle"
    /\ gpc = "g_idle"
    /\ running = TRUE
    /\ init = [count |-> 0, generation_id |-> 0]
    /\ hw = NoParams
    /\ param_ch = <<>>
    /\ params = NoParams
    /\ period_size = 0
    /\ sound_ch = <<>>
    /\ sound_i = 0
    /\ sounds = <<>>
    /\ vals = <<>>
    /\ period_ch = <<>>
    /\ wvals = <<>>
    /\ wResult = "none"
    /\ gResult = "none"
    /\ outcome = "none"
    /\ sent = 0
    /\ received = 0
    /\ gen_iters = 0
    /\ last_recover = "none"
    /\ intake_left = -1
    /\ pruned = {}
    /\ sent_log = <<>>
    /\ write_log = <<>>

\* No Vec<Box<dyn Sound>> is being mixed.
MixIdle ==
    /\ lib_sounds = <<>>
    /\ mix_kind = "none"
    /\ mix_channel = 0
    /\ mix_out = <<0, 1>>

\* No Sinusoid is in use.
SinIdle ==
    /\ sinusoid = [phase |-> <<>>, step |-> <<>>, amplitude |-> <<>>,
                   filters |-> <<>>,
                   ticker |-> [tick_count |-> 0, duration |-> 0]]
    /\ sin_op = "none"
    /\ sin_out = <<0, 1>>
    /\ sin_gens = 0
    /\ sin_ticks = 0
    /\ sin_passed = -1

\* No filter is in use.
FilterIdle ==
    /\ filter = [kind |-> "none"]
    /\ f_op = "none"
    /\ f_in = [val |-> <<0, 1>>, tick |-> 0, channel |-> 0]
    /\ f_out = <<0, 1>>

\* No CachedSound or MultiSound is in use.
SoundIdle ==
    /\ sound = [kind |-> "none"]
    /\ snd_op = "none"
    /\ snd_channel = 0
    /\ snd_out = <<0, 1>>
    /\ snd_ticks = 0

\* No Note is in use.
MusicIdle ==
    /\ note = [name |-> "none", octave |-> 0]
    /\ key = [status |-> "none", value |-> 0]

\* No CachedPeriod is in use.
PeriodIdle ==
    /\ cperiod = [kind |-> "none"]
    /\ cp_op = "none"
    /\ cp_out = <<0, 1>>
    /\ cp_gens = 0

\* No library voice, filter or note is in use in the pipeline of main.rs.
LibIdle ==
    MixIdle /\ SinIdle /\ FilterIdle /\ SoundIdle /\ MusicIdle /\ PeriodIdle

Init ==
    PipeInit /\ LibIdle

(***************************************************************************)
(* std::sync::Barrier::wait, in two steps: the arrival (count += 1; the    *)
(* last arrival resets count, bumps generation_id and returns), and the    *)
(* return of a thread that waited for generation_id to change.             *)
(***************************************************************************)
BarrierLast_alone(b) ==
    b.count + 1 >= 1

\* lock.count += 1; lock.count < self.num_threads, for Barrier::new(2)
BarrierLast(b) ==
    b.count + 1 >= BarrierThreads

BarrierArrive(b) ==
    IF BarrierLast(b)
    THEN [count |-> 0, generation_id |-> b.generation_id + 1]
    ELSE [b EXCEPT !.count = @ + 1]

BarrierReleased(b) ==
    b.generation_id # 0

(***************************************************************************)
(* run: the owning thread (src/main.rs 108-186).                           *)
(***************************************************************************)
\* write_and_loop(..) spawns the writer thread; handles.push(handle)
MainSpawnWriter ==
    /\ mpc = "m_spawn_writer"
    /\ mpc' = "m_recv_params"
    /\ wpc' = "w_open"
    /\ UNCHANGED libVars
    /\ UNCHANGED logVars
    /\ UNCHANGED << gpc, running, init, hw, param_ch, params, period_size,
                    sound_ch, sound_i, sounds, vals, period_ch, wvals,
                    wResult, gResult, outcome, sent, received, gen_iters,
                    last_recover, intake_left, pruned >>

\* let params = param_rx.recv().unwrap(): a message is there
MainRecvParams ==
    /\ mpc = "m_recv_params"
    /\ param_ch # <<>>
    /\ params' = Head(param_ch)
    /\ param_ch' = Tail(param_ch)
    /\ mpc' = "m_barrier"
    /\ UNCHANGED libVars
    /\ UNCHANGED logVars
    /\ UNCHANGED << wpc, gpc, running, init, hw, period_size, sound_ch,
                    sound_i, sounds, vals, period_ch, wvals, wResult,
                    gResult, outcome, sent, received, gen_iters,
                    last_recover, intake_left, pruned >>

\* param_rx.recv().unwrap(): the sender is gone and nothing was sent; the
\* unwrap panics in the main thread and the process ends
MainRecvParamsPanic ==
    /\ mpc = "m_recv_params"
    /\ param_ch = <<>>
    /\ ~ParamTxAlive
    /\ mpc' = "panicked"
    /\ outcome' = "Panic"
    /\ UNCHANGED libVars
    /\ UNCHANGED logVars
    /\ UNCHANGED << wpc, gpc, running, init, hw, param_ch, params,
                    period_size, sound_ch, sound_i, sounds, vals, period_ch,
                    wvals, wResult, gResult, sent, received, gen_iters,
                    last_recover, intake_left, pruned >>

\* init.wait(): the arrival
MainBarrier ==
    /\ mpc = "m_barrier"
    /\ init' = BarrierArrive(init)
    /\ mpc' = IF BarrierLast(init) THEN "m_spawn_gen" ELSE "m_barrier_wait"
    /\ UNCHANGED libVars
    /\ UNCHANGED logVars
    /\ UNCHANGED << wpc, gpc, running, hw, param_ch, params, period_size,
                    sound_ch, sound_i, sounds, vals, period_ch, wvals,
                    wResult, gResult, outcome, sent, received, gen_iters,
                    last_recover, intake_left, pruned >>

\* init.wait(): the return of the thread that arrived first
MainBarrierLeave ==
    /\ mpc = "m_barrier_wait"
    /\ BarrierReleased(init)
    /\ mpc' = "m_spawn_gen"
    /\ UNCHANGED libVars
    /\ UNCHANGED logVars
    /\ UNCHANGED << wpc, gpc, running, init, hw, param_ch, params,
                    period_size, sound_ch, sound_i, sounds, vals, period_ch,
                    wvals, wResult, gResult, outcome, sent, received,
                    gen_iters, last_recover, intake_left, pruned >>

\* drop(param_rx); generate(running, &params, sound_rx, period_tx):
\* period_size = hwp.period_size as usize, then the thread is spawned
MainSpawnGen ==
    /\ mpc = "m_spawn_gen"
    /\ period_size' = params.period_size
    /\ gpc' = "g_loop"
    /\ mpc' = "m_send"
    /\ UNCHANGED libVars
    /\ UNCHANGED logVars
    /\ UNCHANGED << wpc, running, init, hw, param_ch, params, sound_ch,
                    sound_i, sounds, vals, period_ch, wvals, wResult,
                    gResult, outcome, sent, received, gen_iters,
                    last_recover, intake_left, pruned >>

\* SountTest::new(freq, 7000.0, duration, &params): a voice at tick 0 whose
\* duration in ticks comes from the negotiated rate
NewVoice(p) ==
    TickerNew(duration_to_ticks(DurationMillis, p.rate))

\* for i in 0..8 { sound_tx.send(Box::new(st)).unwrap(); sleep }
MainSendSound ==
    /\ mpc = "m_send"
    /\ sound_i < MaxVoices
    /\ SoundRxAlive
    /\ sound_ch' = Append(sound_ch, NewVoice(params))
    /\ sound_i' = sound_i + 1
    /\ UNCHANGED libVars
    /\ UNCHANGED logVars
    /\ UNCHANGED << mpc, wpc, gpc, running, init, hw, param_ch, params,
                    period_size, sounds, vals, period_ch, wvals, wResult,
                    gResult, outcome, sent, received, gen_iters,
                    last_recover, intake_left, pruned >>

\* sound_tx.send(..).unwrap() when the generation thread has ended and
\* dropped sound_rx: the unwrap panics in the main thread
MainSendSoundPanic ==
    /\ mpc = "m_send"
    /\ sound_i < MaxVoices
    /\ ~SoundRxAlive
    /\ mpc' = "panicked"
    /\ outcome' = "Panic"
    /\ UNCHANGED libVars
    /\ UNCHANGED logVars
    /\ UNCHANGED << wpc, gpc, running, init, hw, param_ch, params,
                    period_size, sound_ch, sound_i, sounds, vals, period_ch,
                    wvals, wResult, gResult, sent, received, gen_iters,
                    last_recover, intake_left, pruned >>

\* thread::sleep(..); running.fetch_and(false, Relaxed)
MainClear ==
    /\ mpc = "m_send"
    /\ sound_i = MaxVoices
    /\ running' = FALSE
    /\ mpc' = "m_join_writer"
    /\ UNCHANGED libVars
    /\ UNCHANGED logVars
    /\ UNCHANGED << wpc, gpc, init, hw, param_ch, params, period_size,
                    sound_ch, sound_i, sounds, vals, period_ch, wvals,
                    wResult, gResult, outcome, sent, received, gen_iters,
                    last_recover, intake_left, pruned >>

\* What run keeps of a joined thread's Result: match .. { _ => () }
JoinOutcome(prev, result) ==
    prev

\* handles[0].join().unwrap(): blocks until the writer thread has ended
MainJoinWriter ==
    /\ mpc = "m_join_writer"
    /\ wpc = "w_done"
    /\ wResult # "Panic"
    /\ outcome' = JoinOutcome(outcome, wResult)
    /\ mpc' = "m_join_gen"
    /\ UNCHANGED libVars
    /\ UNCHANGED logVars
    /\ UNCHANGED << wpc, gpc, running, init, hw, param_ch, params,
                    period_size, sound_ch, sound_i, sounds, vals, period_ch,
                    wvals, wResult, gResult, sent, received, gen_iters,
                    last_recover, intake_left, pruned >>

\* handles[1].join().unwrap(), then run returns ()
MainJoinGen ==
    /\ mpc = "m_join_gen"
    /\ gpc = "g_done"
    /\ outcome' = IF JoinOutcome(outcome, gResult) = "none" THEN "Ok"
                  ELSE JoinOutcome(outcome, gResult)
    /\ mpc' = "m_done"
    /\ UNCHANGED libVars
    /\ UNCHANGED logVars
    /\ UNCHANGED << wpc, gpc, running, init, hw, param_ch, params,
                    period_size, sound_ch, sound_i, sounds, vals, period_ch,
                    wvals, wResult, gResult, sent, received, gen_iters,
                    last_recover, intake_left, pruned >>

MainNext ==
    \/ MainSpawnWriter
    \/ MainRecvParams
    \/ MainRecvParamsPanic
    \/ MainBarrier
    \/ MainBarrierLeave
    \/ MainSpawnGen
    \/ MainSendSound
    \/ MainSendSoundPanic
    \/ MainClear
    \/ MainJoinWriter
    \/ MainJoinGen

(***************************************************************************)
(* write_and_loop: the writer thread (src/main.rs 58-106).                 *)
(***************************************************************************)
\* error.rs: the Kind of the Error a `?` converts into (From<AlsaError>,
\* From<SendError<T>>, From<RecvError>)
IsErr(result) ==
    result \in {"Alsa", "Channel"}

\* "Ok" for Ok(()), "Alsa" or "Channel" for Err(Error(_, kind)), "Panic"
WriterEnds(result) ==
    /\ wpc' = "w_done"
    /\ wResult' = result

\* PCM::new(device, Direction::Playback, false).unwrap(): the device opens
WriterOpen ==
    /\ wpc = "w_open"
    /\ ~Halted
    /\ wpc' = "w_negotiate"
    /\ UNCHANGED libVars
    /\ UNCHANGED logVars
    /\ UNCHANGED << mpc, gpc, running, init, hw, param_ch, params,
                    period_size, sound_ch, sound_i, sounds, vals, period_ch,
                    wvals, wResult, gResult, outcome, sent, received,
                    gen_iters, last_recover, intake_left, pruned >>

\* PCM::new(..).unwrap(): the device does not open, the thread panics
WriterOpenPanic ==
    /\ wpc = "w_open"
    /\ ~Halted
    /\ WriterEnds("Panic")
    /\ UNCHANGED libVars
    /\ UNCHANGED logVars
    /\ UNCHANGED << mpc, gpc, running, init, hw, param_ch, params,
                    period_size, sound_ch, sound_i, sounds, vals, period_ch,
                    wvals, gResult, outcome, sent, received, gen_iters,
                    last_recover, intake_left, pruned >>

\* HwParams::any .. pcm.hw_params(&hwp)?: the hardware installs the channel
\* count asked for and a rate and period size near the ones asked for
WriterNegotiate ==
    /\ wpc = "w_negotiate"
    /\ ~Halted
    /\ \E r \in 1..MaxRate, ps \in 1..MaxPeriodSize :
          hw' = [channels |-> RequestedChannels, rate |-> r,
                 period_size |-> ps]
    /\ wpc' = "w_send_params"
    /\ UNCHANGED libVars
    /\ UNCHANGED logVars
    /\ UNCHANGED << mpc, gpc, running, init, param_ch, params, period_size,
                    sound_ch, sound_i, sounds, vals, period_ch, wvals,
                    wResult, gResult, outcome, sent, received, gen_iters,
                    last_recover, intake_left, pruned >>

\* one of the `?` of the negotiation returns Err
WriterNegotiateFail ==
    /\ wpc = "w_negotiate"
    /\ ~Halted
    /\ WriterEnds("Alsa")
    /\ UNCHANGED libVars
    /\ UNCHANGED logVars
    /\ UNCHANGED << mpc, gpc, running, init, hw, param_ch, params,
                    period_size, sound_ch, sound_i, sounds, vals, period_ch,
                    wvals, gResult, outcome, sent, received, gen_iters,
                    last_recover, intake_left, pruned >>

\* param_tx.send(HardwareParams::from(&hwp))?
WriterSendParams ==
    /\ wpc = "w_send_params"
    /\ ~Halted
    /\ IF ParamRxAlive
       THEN /\ param_ch' = Append(param_ch, HardwareParamsFrom(hw))
            /\ wpc' = "w_barrier"
            /\ UNCHANGED wResult
       ELSE /\ WriterEnds("Channel")
            /\ UNCHANGED param_ch
    /\ UNCHANGED libVars
    /\ UNCHANGED logVars
    /\ UNCHANGED << mpc, gpc, running, init, hw, params, period_size,
                    sound_ch, sound_i, sounds, vals, period_ch, wvals,
                    gResult, outcome, sent, received, gen_iters,
                    last_recover, intake_left, pruned >>

\* init.wait(): the arrival
WriterBarrier ==
    /\ wpc = "w_barrier"
    /\ ~Halted
    /\ init' = BarrierArrive(init)
    /\ wpc' = IF BarrierLast(init) THEN "w_setup" ELSE "w_barrier_wait"
    /\ UNCHANGED libVars
    /\ UNCHANGED logVars
    /\ UNCHANGED << mpc, gpc, running, hw, param_ch, params, period_size,
                    sound_ch, sound_i, sounds, vals, period_ch, wvals,
                    wResult, gResult, outcome, sent, received, gen_iters,
                    last_recover, intake_left, pruned >>

\* init.wait(): the return of the thread that arrived first
WriterBarrierLeave ==
    /\ wpc = "w_barrier_wait"
    /\ ~Halted
    /\ BarrierReleased(init)
    /\ wpc' = "w_setup"
    /\ UNCHANGED libVars
    /\ UNCHANGED logVars
    /\ UNCHANGED << mpc, gpc, running, init, hw, param_ch, params,
                    period_size, sound_ch, sound_i, sounds, vals, period_ch,
                    wvals, wResult, gResult, outcome, sent, received,
                    gen_iters, last_recover, intake_left, pruned >>

\* drop(param_tx); pcm.io_checked()? .. pcm.sw_params(&swp)?: all succeed
WriterSetup ==
    /\ wpc = "w_setup"
    /\ ~Halted
    /\ wpc' = "w_loop"
    /\ UNCHANGED libVars
    /\ UNCHANGED logVars
    /\ UNCHANGED << mpc, gpc, running, init, hw, param_ch, params,
                    period_size, sound_ch, sound_i, sounds, vals, period_ch,
                    wvals, wResult, gResult, outcome, sent, received,
                    gen_iters, last_recover, intake_left, pruned >>

\* one of the `?` between the barrier and the loop returns Err
WriterSetupFail ==
    /\ wpc = "w_setup"
    /\ ~Halted
    /\ WriterEnds("Alsa")
    /\ UNCHANGED libVars
    /\ UNCHANGED logVars
    /\ UNCHANGED << mpc, gpc, running, init, hw, param_ch, params,
                    period_size, sound_ch, sound_i, sounds, vals, period_ch,
                    wvals, gResult, outcome, sent, received, gen_iters,
                    last_recover, intake_left, pruned >>

WriterLoopCheck_ignore ==
    /\ wpc = "w_loop"
    /\ ~Halted
    /\ wpc' = "w_recv"
    /\ UNCHANGED libVars
    /\ UNCHANGED logVars
    /\ UNCHANGED << mpc, gpc, running, init, hw, param_ch, params,
                    period_size, sound_ch, sound_i, sounds, vals, period_ch,
                    wvals, wResult, gResult, outcome, sent, received,
                    gen_iters, last_recover, intake_left, pruned >>

\* while running.load(Relaxed) { .. } Ok(())
WriterLoopCheck ==
    /\ wpc = "w_loop"
    /\ ~Halted
    /\ IF running
       THEN wpc' = "w_recv" /\ UNCHANGED wResult
       ELSE WriterEnds("Ok")
    /\ UNCHANGED libVars
    /\ UNCHANGED logVars
    /\ UNCHANGED << mpc, gpc, running, init, hw, param_ch, params,
                    period_size, sound_ch, sound_i, sounds, vals, period_ch,
                    wvals, gResult, outcome, sent, received, gen_iters,
                    last_recover, intake_left, pruned >>

\* let vals = period_rx.recv()?: a period is buffered
WriterRecv ==
    /\ wpc = "w_recv"
    /\ ~Halted
    /\ period_ch # <<>>
    /\ wvals' = Head(period_ch)
    /\ period_ch' = Tail(period_ch)
    /\ received' = received + 1
    /\ wpc' = "w_write"
    /\ UNCHANGED libVars
    /\ UNCHANGED logVars
    /\ UNCHANGED << mpc, gpc, running, init, hw, param_ch, params,
                    period_size, sound_ch, sound_i, sounds, vals, wResult,
                    gResult, outcome, sent, gen_iters, last_recover,
                    intake_left, pruned >>

\* period_rx.recv()?: nothing is buffered and the sender is gone: RecvError
WriterRecvClosed ==
    /\ wpc = "w_recv"
    /\ ~Halted
    /\ period_ch = <<>>
    /\ ~PeriodTxAlive
    /\ WriterEnds("Channel")
    /\ UNCHANGED libVars
    /\ UNCHANGED logVars
    /\ UNCHANGED << mpc, gpc, running, init, hw, param_ch, params,
                    period_size, sound_ch, sound_i, sounds, vals, period_ch,
                    wvals, gResult, outcome, sent, received, gen_iters,
                    last_recover, intake_left, pruned >>

\* io.writei(&vals[..]) returned: the period received last was handed over
WriteiReturned(ok) ==
    [n |-> received, vals |-> wvals, ok |-> ok]

\* io.writei(&vals[..]) returns Ok(_)
WriterWrite ==
    /\ wpc = "w_write"
    /\ ~Halted
    /\ wpc' = "w_loop"
    /\ UNCHANGED libVars
    /\ write_log' = Append(write_log, WriteiReturned(TRUE))
    /\ UNCHANGED sent_log
    /\ UNCHANGED << mpc, gpc, running, init, hw, param_ch, params,
                    period_size, sound_ch, sound_i, sounds, vals, period_ch,
                    wvals, wResult, gResult, outcome, sent, received,
                    gen_iters, last_recover, intake_left, pruned >>

\* io.writei(&vals[..]) returns Err(err)
WriterWriteErr ==
    /\ wpc = "w_write"
    /\ ~Halted
    /\ wpc' = "w_recover"
    /\ UNCHANGED libVars
    /\ write_log' = Append(write_log, WriteiReturned(FALSE))
    /\ UNCHANGED sent_log
    /\ UNCHANGED << mpc, gpc, running, init, hw, param_ch, params,
                    period_size, sound_ch, sound_i, sounds, vals, period_ch,
                    wvals, wResult, gResult, outcome, sent, received,
                    gen_iters, last_recover, intake_left, pruned >>

WriterRecover_ends ==
    /\ wpc = "w_recover"
    /\ ~Halted
    /\ last_recover' = "ok"
    /\ WriterEnds("Alsa")
    /\ UNCHANGED libVars
    /\ UNCHANGED logVars
    /\ UNCHANGED << mpc, gpc, running, init, hw, param_ch, params,
                    period_size, sound_ch, sound_i, sounds, vals, period_ch,
                    wvals, gResult, outcome, sent, received, gen_iters,
                    intake_left, pruned >>

WriterRecover_retry ==
    /\ wpc = "w_recover"
    /\ ~Halted
    /\ last_recover' = "ok"
    /\ wpc' = "w_write"
    /\ UNCHANGED libVars
    /\ UNCHANGED logVars
    /\ UNCHANGED << mpc, gpc, running, init, hw, param_ch, params,
                    period_size, sound_ch, sound_i, sounds, vals, period_ch,
                    wvals, wResult, gResult, outcome, sent, received,
                    gen_iters, intake_left, pruned >>

\* pcm.try_recover(err, true)? returns Ok(()): back to the loop test
WriterRecover ==
    /\ wpc = "w_recover"
    /\ ~Halted
    /\ last_recover' = "ok"
    /\ wpc' = "w_loop"
    /\ UNCHANGED libVars
    /\ UNCHANGED logVars
    /\ UNCHANGED << mpc, gpc, running, init, hw, param_ch, params,
                    period_size, sound_ch, sound_i, sounds, vals, period_ch,
                    wvals, wResult, gResult, outcome, sent, received,
                    gen_iters, intake_left, pruned >>

\* pcm.try_recover(err, true)? returns Err: the thread returns it
WriterRecoverFail ==
    /\ wpc = "w_recover"
    /\ ~Halted
    /\ last_recover' = "fatal"
    /\ WriterEnds("Alsa")
    /\ UNCHANGED libVars
    /\ UNCHANGED logVars
    /\ UNCHANGED << mpc, gpc, running, init, hw, param_ch, params,
                    period_size, sound_ch, sound_i, sounds, vals, period_ch,
                    wvals, gResult, outcome, sent, received, gen_iters,
                    intake_left, pruned >>

WriterNext ==
    \/ WriterOpen
    \/ WriterOpenPanic
    \/ WriterNegotiate
    \/ WriterNegotiateFail
    \/ WriterSendParams
    \/ WriterBarrier
    \/ WriterBarrierLeave
    \/ WriterSetup
    \/ WriterSetupFail
    \/ WriterLoopCheck
    \/ WriterRecv
    \/ WriterRecvClosed
    \/ WriterWrite
    \/ WriterWriteErr
    \/ WriterRecover
    \/ WriterRecoverFail

(***************************************************************************)
(* generate: the generation thread (src/main.rs 20-56).                    *)
(***************************************************************************)
GenEnds(result) ==
    /\ gpc' = "g_done"
    /\ gResult' = result

Range(f) ==
    {f[i] : i \in DOMAIN f}

\* while running.load(Relaxed) { .. } Ok(())
GenLoopCheck ==
    /\ gpc = "g_loop"
    /\ ~Halted
    /\ running => gen_iters < MaxTicks
    /\ IF running
       THEN /\ gpc' = "g_intake"
            /\ gen_iters' = gen_iters + 1
            /\ UNCHANGED gResult
       ELSE /\ GenEnds("Ok")
            /\ UNCHANGED gen_iters
    /\ UNCHANGED libVars
    /\ UNCHANGED logVars
    /\ UNCHANGED << mpc, wpc, running, init, hw, param_ch, params,
                    period_size, sound_ch, sound_i, sounds, vals, period_ch,
                    wvals, wResult, outcome, sent, received, last_recover,
                    intake_left, pruned >>

GenIntake_drain ==
    /\ gpc = "g_intake"
    /\ ~Halted
    /\ sounds' = sounds \o sound_ch
    /\ sound_ch' = <<>>
    /\ intake_left' = 0
    /\ gpc' = "g_mix"
    /\ UNCHANGED libVars
    /\ UNCHANGED logVars
    /\ UNCHANGED << mpc, wpc, running, init, hw, param_ch, params,
                    period_size, sound_i, vals, period_ch, wvals, wResult,
                    gResult, outcome, sent, received, gen_iters,
                    last_recover, pruned >>

\* if let Ok(sound) = sound_rx.try_recv() { sounds.push(sound); }
GenIntake ==
    /\ gpc = "g_intake"
    /\ ~Halted
    /\ IF sound_ch # <<>>
       THEN /\ sounds' = Append(sounds, Head(sound_ch))
            /\ sound_ch' = Tail(sound_ch)
       ELSE UNCHANGED << sounds, sound_ch >>
    /\ intake_left' = Len(sound_ch')
    /\ gpc' = "g_mix"
    /\ UNCHANGED libVars
    /\ UNCHANGED logVars
    /\ UNCHANGED << mpc, wpc, running, init, hw, param_ch, params,
                    period_size, sound_i, vals, period_ch, wvals, wResult,
                    gResult, outcome, sent, received, gen_iters,
                    last_recover, pruned >>

\* The sample pushed for one tick: T::default() with no voice, else the fold
MixSample(ss) ==
    IF ss = <<>> THEN 0 ELSE FoldTick(ss, 0)

\* if sounds.is_empty() { vals.push(T::default()) } else { vals.push(fold);
\* sounds = sounds.into_iter().filter(..).collect() }, then the length test
GenMix ==
    /\ gpc = "g_mix"
    /\ ~Halted
    /\ vals' = Append(vals, MixSample(sounds))
    /\ sounds' = Prune(TickAll(sounds))
    /\ pruned' = pruned \cup (Range(TickAll(sounds)) \ Range(sounds'))
    /\ gpc' = IF PeriodFull(vals', period_size) THEN "g_send" ELSE "g_loop"
    /\ UNCHANGED libVars
    /\ UNCHANGED logVars
    /\ UNCHANGED << mpc, wpc, running, init, hw, param_ch, params,
                    period_size, sound_ch, sound_i, period_ch, wvals,
                    wResult, gResult, outcome, sent, received, gen_iters,
                    last_recover, intake_left >>

SyncChannelHasRoom_two(ch) ==
    Len(ch) < PeriodChannelBound + 1

\* SyncSender::send blocks while the buffer of sync_channel(1) is full
SyncChannelHasRoom(ch) ==
    Len(ch) < PeriodChannelBound

\* period_tx.send(vals)?; vals = Vec::with_capacity(period_size)
GenSend ==
    /\ gpc = "g_send"
    /\ ~Halted
    /\ PeriodRxAlive
    /\ SyncChannelHasRoom(period_ch)
    /\ period_ch' = Append(period_ch, vals)
    /\ vals' = <<>>
    /\ sent' = sent + 1
    /\ gpc' = "g_loop"
    /\ UNCHANGED libVars
    /\ sent_log' = Append(sent_log, vals)
    /\ UNCHANGED write_log
    /\ UNCHANGED << mpc, wpc, running, init, hw, param_ch, params,
                    period_size, sound_ch, sound_i, sounds, wvals, wResult,
                    gResult, outcome, received, gen_iters, last_recover,
                    intake_left, pruned >>

\* period_tx.send(vals)?: the receiver is gone: SendError
GenSendFail ==
    /\ gpc = "g_send"
    /\ ~Halted
    /\ ~PeriodRxAlive
    /\ GenEnds("Channel")
    /\ UNCHANGED libVars
    /\ UNCHANGED logVars
    /\ UNCHANGED << mpc, wpc, running, init, hw, param_ch, params,
                    period_size, sound_ch, sound_i, sounds, vals, period_ch,
                    wvals, wResult, outcome, sent, received, gen_iters,
                    last_recover, intake_left, pruned >>

GenNext ==
    \/ GenLoopCheck
    \/ GenIntake
    \/ GenMix
    \/ GenSend
    \/ GenSendFail

PipeNext ==
    \/ MainNext
    \/ WriterNext
    \/ GenNext

Next ==
    PipeNext

Spec ==
    Init /\ [][Next]_vars

\* Each thread is an OS thread: one that can take a step takes one.
FairSpec ==
    /\ Spec
    /\ WF_vars(MainNext)
    /\ WF_vars(WriterNext)
    /\ WF_vars(GenNext)

(***************************************************************************)
(* Claims about the pipeline.                                              *)
(***************************************************************************)

\* C1: backpressure.  The period channel never holds more than one period
\* sent and not yet received, and the send of a period completes only when
\* every earlier period has been received by the writer.
C1_Backpressure ==
    /\ Len(period_ch) <= 1
    /\ sent - received = Len(period_ch)
    /\ sent <= received + 1

\* C1 witness: the generation thread waits in send with a full period while
\* the previous period is still buffered and the writer is alive.
C1_Witness ==
    /\ gpc = "g_send"
    /\ Len(period_ch) = 1
    /\ PeriodRxAlive
    /\ sent = 1
    /\ received = 0

WriterArrived ==
    wpc \notin {"w_idle", "w_open", "w_negotiate", "w_send_params",
                "w_barrier"}

WriterPastBarrier ==
    WriterArrived /\ wpc # "w_barrier_wait"

MainPastBarrier ==
    mpc \notin {"m_spawn_writer", "m_recv_params", "m_barrier",
                "m_barrier_wait"}

C3_Shutdown ==
    /\ [][~running =>
            /\ ~(wpc = "w_loop" /\ wpc' = "w_recv")
            /\ ~(gpc = "g_loop" /\ gpc' = "g_intake")]_vars
    /\ (~running) ~> (wpc = "w_done" /\ gpc = "g_done")

\* C3 witness: after the flag was cleared run has joined both threads, the
\* generation thread having left a blocked send through the closed channel.
C3_Witness ==
    /\ ~running
    /\ mpc = "m_done"
    /\ wResult = "Ok"
    /\ gResult = "Channel"

\* C4: when a stage returned an error, the outcome of run is that error
\* (the writer's if both failed: it is joined first).
C4_FirstErrorPropagated ==
    mpc = "m_done" =>
        /\ IsErr(wResult) => outcome = wResult
        /\ (~IsErr(wResult) /\ IsErr(gResult)) => outcome = gResult

\* C5: writer recovery.  A try_recover that succeeds leaves the writer in
\* its loop, not ended, and from the loop test it goes on to recv while
\* running is set; a try_recover that fails ends the writer with Err.
C5_WriterRecovery ==
    [][/\ (wpc = "w_recover" /\ wpc' # "w_recover") =>
              /\ last_recover' \in {"ok", "fatal"}
              /\ last_recover' = "ok" =>
                    (wpc' = "w_loop" /\ wResult' = "none")
              /\ last_recover' = "fatal" =>
                    (wpc' = "w_done" /\ IsErr(wResult'))
       /\ (wpc = "w_loop" /\ wpc' # "w_loop" /\ running) => wpc' = "w_recv"
      ]_vars

\* C5 witness: after a recovered write error the writer has received a
\* further period.
C5_Witness ==
    /\ last_recover = "ok"
    /\ wpc = "w_write"
    /\ received = 2
    /\ wResult = "none"

\* C6: every period sent to the writer has length period_size *
\* channel_count of the negotiated parameters.
C6_PeriodLength ==
    /\ \A i \in 1..Len(period_ch) :
          Len(period_ch[i]) = hw.period_size * hw.channels
    /\ received > 0 => Len(wvals) = hw.period_size * hw.channels

\* C6 witness: a period of a two-frame negotiation is buffered.
C6_Witness ==
    /\ period_ch # <<>>
    /\ hw.period_size = 2
    /\ hw.channels >= 1

RECURSIVE SumSamples(_)
\* the sum of the voices' current samples, unbounded
SumSamples(ss) ==
    IF ss = <<>> THEN 0 ELSE VoiceSample(Head(ss)) + SumSamples(Tail(ss))

\* C9: every sample the generation stage emits is the sum of the active
\* voices' current samples divided by the cap of 4.
C9_FixedCapSample ==
    [][(gpc = "g_mix" /\ gpc' # "g_mix") =>
          vals'[Len(vals')] * MAX_CONCURRENT = SumSamples(sounds)]_vars

\* the writer thread ended in PCM::new or in the hw_params negotiation:
\* no HwParams was installed
NegotiationFailed ==
    wpc = "w_done" /\ hw = NoParams

\* C11: when opening the device or negotiating the hardware parameters fails
\* in the writer, the generation thread is never started, no period is
\* generated, sent or written, the barrier is never entered, and the session
\* ends (run's recv().unwrap() panics) instead of waiting forever.
C11_NegotiationFatal ==
    /\ [](NegotiationFailed =>
             /\ gpc = "g_idle"
             /\ gen_iters = 0
             /\ vals = <<>>
             /\ sent = 0
             /\ received = 0
             /\ init = [count |-> 0, generation_id |-> 0]
             /\ mpc \in {"m_recv_params", "panicked"})
    /\ (NegotiationFailed ~> Halted)

\* C11 witness: the negotiation returned an error and the session ended.
C11_Witness ==
    /\ NegotiationFailed
    /\ wResult = "Alsa"
    /\ Halted
    /\ gpc = "g_idle"

\* C12: once running has been cleared, a stage that finds the period channel
\* closed (the writer in recv, the generation thread in send) returns Ok.
C12_ClosedAfterShutdownIsOk ==
    [][/\ (~running /\ wpc = "w_recv" /\ wpc' = "w_done") => wResult' = "Ok"
       /\ (~running /\ gpc = "g_send" /\ gpc' = "g_done") => gResult' = "Ok"]_vars

\* each call of io.writei was given the period that many sends before it
\* had sent
WrittenInSendOrder ==
    \A i \in 1..Len(write_log) :
        /\ write_log[i].n <= Len(sent_log)
        /\ write_log[i].vals = sent_log[write_log[i].n]

\* C27 as stated: the periods sent reach io.writei in the order of the
\* sends, and a period whose write returned an error is the one given to the
\* next call of io.writei, after the recovery.
C27_Original ==
    /\ WrittenInSendOrder
    /\ \A i \in 1..(Len(write_log) - 1) :
           ~write_log[i].ok => write_log[i + 1].n = write_log[i].n

\* C27, amended: the periods sent reach io.writei in the order of the sends,
\* each one in exactly one call, whether that call returns Ok or an error:
\* the k-th call of io.writei is given the k-th period sent.  A period whose
\* write failed is not written again.  A period that is buffered is received
\* unless the writer thread ends or the session panics first, and a period
\* received is given to io.writei before the next one is received.
C27_WrittenOnceInOrder ==
    /\ [](/\ Len(sent_log) = sent
          /\ received <= sent
          /\ Len(write_log) <= received
          /\ received <= Len(write_log) + 1
          /\ WrittenInSendOrder
          /\ \A i \in 1..Len(write_log) : write_log[i].n = i)
    /\ (period_ch # <<>>) ~>
           (period_ch = <<>> \/ wpc = "w_done" \/ Halted)
    /\ (received > Len(write_log)) ~>
           (received = Len(write_log) \/ Halted)

\* C27 witness: the write of the first period failed, the recovery
\* succeeded, and the next call of io.writei wrote the second period.
C27_Witness ==
    /\ Len(write_log) = 2
    /\ ~write_log[1].ok
    /\ write_log[2].ok
    /\ write_log[2].n = 2
    /\ write_log[2].vals = sent_log[2]
    /\ last_recover = "ok"
    /\ wResult = "none"

(***************************************************************************)
(* src/sound.rs: CachedSound and the mixing functions.  An f32 is an exact *)
(* fraction <<num, den>> with den > 0, in lowest terms.                    *)
(***************************************************************************)
\* Most voices handed to one mix call
MaxMixSounds == 4
\* Frames of a pre-loaded sample buffer: 1..MaxFrames
MaxFrames == 2
\* Channels of a pre-loaded sample buffer: 1..MaxInChannels
MaxInChannels == 2
\* Sample values: -MaxValue..MaxValue
MaxValue == 1

Abs(x) ==
    IF x < 0 THEN -x ELSE x

RECURSIVE Gcd(_, _)
Gcd(a, b) ==
    IF b = 0 THEN a ELSE Gcd(b, a % b)

\* a fraction in lowest terms; a zero denominator stands for the f32 values
\* that are no numbers: << 1, 0 >> is inf, << -1, 0 >> is -inf, << 0, 0 >>
\* is NaN
Frac(n, d) ==
    IF d = 0
    THEN << (IF n > 0 THEN 1 ELSE IF n < 0 THEN -1 ELSE 0), 0 >>
    ELSE LET g == Gcd(Abs(n), d) IN << n \div g, d \div g >>

\* f32 + f32 (inf + inf = inf, inf + -inf = NaN, NaN + x = NaN)
FAdd(x, y) ==
    IF x[2] = 0 /\ y[2] = 0
    THEN (IF x = y THEN x ELSE << 0, 0 >>)
    ELSE Frac(x[1] * y[2] + y[1] * x[2], x[2] * y[2])

\* f32 * f32 (0 * inf = NaN, NaN * x = NaN)
FMul(x, y) ==
    Frac(x[1] * y[1], x[2] * y[2])

\* f32::abs
FAbs(x) ==
    << Abs(x[1]), x[2] >>

\* f32 - f32
FSub(x, y) ==
    FAdd(x, << -y[1], y[2] >>)

\* (n as f32), n an integer
FInt(n) ==
    << n, 1 >>

\* x < y, for numbers x and y
FLess(x, y) ==
    /\ x[2] > 0
    /\ y[2] > 0
    /\ x[1] * y[2] < y[1] * x[2]

\* x is a number and lo <= x <= hi, for integers lo and hi
FWithin(x, lo, hi) ==
    /\ x[2] > 0
    /\ lo * x[2] <= x[1]
    /\ x[1] <= hi * x[2]

\* f32 / (k as f32), k > 0
FDiv(x, k) ==
    Frac(x[1], x[2] * k)

\* InputConfig::new and CachedSound::new: idx starts at 0
CachedSoundNew(data, channels) ==
    [data |-> data, channels |-> channels, idx |-> 0]

\* CachedSound::is_complete
CachedSound_is_complete(s) ==
    s.idx * s.channels >= Len(s.data)

CachedSound_generate_mono(s, channel) ==
    IF CachedSound_is_complete(s)
    THEN 0
    ELSE s.data[s.idx * s.channels + 1]

\* CachedSound::generate (data is indexed from 0 in the source)
CachedSound_generate(s, channel) ==
    IF CachedSound_is_complete(s)
    THEN 0
    ELSE s.data[s.idx * s.channels + (channel % s.channels) + 1]

\* CachedSound::generate: the slice index it reads, if any, is inside data
CachedSound_in_bounds(s, channel) ==
    \/ CachedSound_is_complete(s)
    \/ s.idx * s.channels + (channel % s.channels) < Len(s.data)

\* CachedSound::tick
CachedSound_tick(s) ==
    [s EXCEPT !.idx = @ + 1]

RECURSIVE mix_internal(_, _, _)
\* sounds.iter_mut().fold(0.0f32, |acc, s| acc + s.generate(channel) /
\* num_sounds as f32)
mix_internal(ss, channel, num_sounds) ==
    IF ss = <<>> THEN << 0, 1 >>
    ELSE LET n == Len(ss)
             acc == mix_internal(SubSeq(ss, 1, n - 1), channel, num_sounds)
         IN FAdd(acc,
                 FDiv(<< CachedSound_generate(ss[n], channel), 1 >>,
                      num_sounds))

\* let size = sounds.len() as u32; mix_internal(sounds, channel, size)
mix(ss, channel) ==
    mix_internal(ss, channel, Len(ss))

mix_fixed_live(ss, channel) ==
    mix_internal(ss, channel, Len(ss))

\* mix_fixed: mix_internal(sounds, channel, MAX_CONCURRENT)
mix_fixed(ss, channel) ==
    mix_internal(ss, channel, MAX_CONCURRENT)

\* a buffer of frames * channels samples, all equal to v
ConstData(v, frames, channels) ==
    [i \in 1..(frames * channels) |-> v]

\* The voices under test: n sample players over equal constant buffers.
LibInit ==
    /\ \E n \in 0..MaxMixSounds, v \in (-MaxValue)..MaxValue,
          frames \in 1..MaxFrames, channels \in 1..MaxInChannels :
          lib_sounds =
              [i \in 1..n |->
                  CachedSoundNew(ConstData(v, frames, channels), channels)]
    /\ mix_kind = "none"
    /\ mix_channel = 0
    /\ mix_out = << 0, 1 >>
    /\ SinIdle
    /\ FilterIdle
    /\ SoundIdle
    /\ MusicIdle
    /\ PeriodIdle

\* a caller evaluates mix_fixed(&mut sounds, channel)
MixFixedCall ==
    /\ \E channel \in 0..(MaxInChannels - 1) :
          /\ mix_channel' = channel
          /\ mix_out' = mix_fixed(lib_sounds, channel)
    /\ mix_kind' = "fixed"
    /\ UNCHANGED lib_sounds
    /\ UNCHANGED notMixVars

\* a caller evaluates mix(&mut sounds, channel)
MixCall ==
    /\ \E channel \in 0..(MaxInChannels - 1) :
          /\ mix_channel' = channel
          /\ mix_out' = mix(lib_sounds, channel)
    /\ mix_kind' = "dynamic"
    /\ UNCHANGED lib_sounds
    /\ UNCHANGED notMixVars

\* a caller ticks one voice; an earlier mix result is no longer current
LibTick ==
    /\ \E i \in 1..Len(lib_sounds) :
          /\ ~CachedSound_is_complete(lib_sounds[i])
          /\ lib_sounds' = [lib_sounds EXCEPT ![i] = CachedSound_tick(@)]
    /\ mix_kind' = "none"
    /\ mix_channel' = 0
    /\ mix_out' = << 0, 1 >>
    /\ UNCHANGED notMixVars

MixNext ==
    \/ MixFixedCall
    \/ MixCall
    \/ LibTick

MixInit ==
    PipeInit /\ LibInit

MixSpec ==
    MixInit /\ [][MixNext]_vars

\* every voice returns v from generate(channel)
EachEmits(ss, channel, v) ==
    \A i \in 1..Len(ss) : CachedSound_generate(ss[i], channel) = v

\* C10: mix_fixed over N voices that each return the constant v returns
\* N * v / 4, whatever N is.
C10_MixFixed ==
    mix_kind = "fixed" =>
        \A v \in (-MaxValue)..MaxValue :
            EachEmits(lib_sounds, mix_channel, v) =>
                mix_out[1] * MAX_CONCURRENT
                    = Len(lib_sounds) * v * mix_out[2]

\* C10 witness: three voices returning 1 gave 3 * 1 / 4.
C10_Witness ==
    /\ mix_kind = "fixed"
    /\ Len(lib_sounds) = 3
    /\ EachEmits(lib_sounds, mix_channel, 1)
    /\ mix_out = << 3, 4 >>

(***************************************************************************)
(* src/sound.rs: a CachedSound and a MultiSound behind Box<dyn Sound>.  The *)
(* children of a MultiSound are CachedSounds; a buffer holds whole frames   *)
(* and its samples are 1, 2, 3, .. so that each one tells its place.        *)
(***************************************************************************)
\* a buffer of frames * channels samples, the j-th being j
RampData(frames, channels) ==
    [j \in 1..(frames * channels) |-> j]

\* a buffer of len samples, the j-th being j
RampSamples(len) ==
    [j \in 1..len |-> j]

\* MultiSound::with_sounds
MultiSound_with_sounds(ss) ==
    [kind |-> "MultiSound", sounds |-> ss]

\* MultiSound::generate
MultiSound_generate(s, channel) ==
    mix(s.sounds, channel)

\* MultiSound::tick: for sound in &mut self.sounds { sound.tick() }
MultiSound_tick(s) ==
    [s EXCEPT !.sounds = [i \in 1..Len(@) |-> CachedSound_tick(@[i])]]

MultiSound_is_complete_any(s) ==
    \E i \in 1..Len(s.sounds) : CachedSound_is_complete(s.sounds[i])

\* MultiSound::is_complete: self.sounds.iter().all(|s| s.is_complete())
MultiSound_is_complete(s) ==
    \A i \in 1..Len(s.sounds) : CachedSound_is_complete(s.sounds[i])

\* a caller builds a CachedSound over a buffer of up to MaxFrames frames;
\* InputConfig::new takes any slice, its last frame may be partial
CachedNew ==
    /\ snd_op = "none"
    /\ \E channels \in 1..MaxInChannels :
          \E len \in 0..(MaxFrames * channels) :
              sound' = [kind |-> "CachedSound"] @@
                       CachedSoundNew(RampSamples(len), channels)
    /\ snd_op' = "new"
    /\ UNCHANGED << snd_channel, snd_out, snd_ticks >>
    /\ UNCHANGED notSoundVars

\* a caller builds a MultiSound over 0..MaxMixSounds CachedSounds
MultiNew ==
    /\ snd_op = "none"
    /\ \E n \in 0..MaxMixSounds, channels \in 1..MaxInChannels :
          \E frames \in [1..n -> 0..MaxFrames] :
              sound' = MultiSound_with_sounds(
                           [i \in 1..n |->
                               CachedSoundNew(RampData(frames[i], channels),
                                              channels)])
    /\ snd_op' = "new"
    /\ UNCHANGED << snd_channel, snd_out, snd_ticks >>
    /\ UNCHANGED notSoundVars

\* a caller evaluates sound.generate(channel)
SoundGenerate ==
    /\ snd_op \notin {"none", "panic"}
    /\ \E channel \in 0..(MaxInChannels - 1) :
          /\ sound.kind = "CachedSound" =>
                 CachedSound_in_bounds(sound, channel)
          /\ snd_channel' = channel
          /\ snd_out' = IF sound.kind = "CachedSound"
                        THEN FInt(CachedSound_generate(sound, channel))
                        ELSE MultiSound_generate(sound, channel)
    /\ snd_op' = "generate"
    /\ UNCHANGED << sound, snd_ticks >>
    /\ UNCHANGED notSoundVars

\* a caller evaluates generate(channel) on a CachedSound; the slice index
\* is out of bounds and the call panics
SoundGeneratePanic ==
    /\ snd_op \notin {"none", "panic"}
    /\ sound.kind = "CachedSound"
    /\ \E channel \in 0..(MaxInChannels - 1) :
          /\ ~CachedSound_in_bounds(sound, channel)
          /\ snd_channel' = channel
    /\ snd_op' = "panic"
    /\ UNCHANGED << sound, snd_out, snd_ticks >>
    /\ UNCHANGED notSoundVars

\* a caller evaluates sound.tick(), up to one tick past the longest buffer
SoundTick ==
    /\ snd_op \notin {"none", "panic"}
    /\ snd_ticks <= MaxFrames
    /\ sound' = IF sound.kind = "CachedSound"
                THEN CachedSound_tick(sound)
                ELSE MultiSound_tick(sound)
    /\ snd_ticks' = snd_ticks + 1
    /\ snd_op' = "tick"
    /\ UNCHANGED << snd_channel, snd_out >>
    /\ UNCHANGED notSoundVars

SoundNext ==
    \/ CachedNew
    \/ MultiNew
    \/ SoundGenerate
    \/ SoundGeneratePanic
    \/ SoundTick

SoundSpec ==
    Init /\ [][SoundNext]_vars

C25_ReadInBounds ==
    sound.kind = "CachedSound" => snd_op # "panic"

\* the children of a MultiSound that are not complete
ActiveChildren(s) ==
    {i \in 1..Len(s.sounds) : ~CachedSound_is_complete(s.sounds[i])}

RECURSIVE ActiveSum(_, _, _)
\* the sum of what the children in the set act return on a channel
ActiveSum(s, act, channel) ==
    IF act = {}
    THEN 0
    ELSE LET i == CHOOSE j \in act : TRUE
         IN CachedSound_generate(s.sounds[i], channel)
                + ActiveSum(s, act \ {i}, channel)

\* C24: MultiSound.generate(channel), that is mix(), returns the sum of the
\* samples of the children that are not complete, divided by the number of
\* those children; a complete child is not counted in the divisor.
C24_DynamicDivisor ==
    (sound.kind = "MultiSound" /\ snd_op = "generate"
        /\ ActiveChildren(sound) # {}) =>
        /\ snd_out[2] > 0
        /\ snd_out[1] * Cardinality(ActiveChildren(sound))
               = ActiveSum(sound, ActiveChildren(sound), snd_channel)
                     * snd_out[2]

(***************************************************************************)
(* src/sound/filter.rs: the filters and the filter chain.                  *)
(***************************************************************************)
\* verify_scale: scale.abs().clamp(0.0, 1.0); clamp keeps NaN
verify_scale(scale) ==
    LET a == FAbs(scale)
    IN IF a[1] > a[2] THEN << 1, 1 >> ELSE a

\* LinearFadeIn::new
LinearFadeInNew(duration) ==
    [kind |-> "LinearFadeIn", duration |-> duration,
     slope |-> Frac(1, duration)]

\* LinearFadeIn::apply
LinearFadeIn_apply(f, val, tick, channel) ==
    IF tick > f.duration
    THEN val
    ELSE FMul(FMul(FInt(tick), f.slope), val)

\* a < b on u32 Ticks; a model integer below 0 stands for that integer +
\* 2^32, the value a wrapped subtraction leaves
U32Less(a, b) ==
    IF (a < 0) = (b < 0) THEN a < b ELSE b < 0

\* LinearFadeOut::new; for duration > end the start is the wrapped
\* difference
LinearFadeOutNew(duration, end) ==
    [kind |-> "LinearFadeOut", end |-> end, start |-> end - duration,
     slope |-> Frac(-1, duration)]

LinearFadeOut_apply_open(f, val, tick, channel) ==
    IF U32Less(tick, f.start) \/ tick >= f.end
    THEN val
    ELSE FMul(FAdd(FInt(1), FMul(f.slope, FInt(tick - f.start))), val)

\* LinearFadeOut::apply
LinearFadeOut_apply(f, val, tick, channel) ==
    IF U32Less(tick, f.start) \/ tick > f.end
    THEN val
    ELSE FMul(FAdd(FInt(1), FMul(f.slope, FInt(tick - f.start))), val)

\* LeftRightFade::new
LeftRightFadeNew(min_scale, max_scale, direction, duration) ==
    LET mn == verify_scale(min_scale)
        mx == verify_scale(max_scale)
        d == FAbs(FSub(mx, mn))
    IN [kind |-> "LeftRightFade", min_scale |-> mn, max_scale |-> mx,
        direction |-> direction, duration |-> duration,
        slope |-> Frac(d[1], d[2] * duration)]

\* LeftRightFade::apply: match channel { 0 => tick, 1 => self.duration -
\* tick, _ => tick }, for tick <= duration on channel 1 (a u32 difference)
LeftRightFade_progress(f, tick, channel) ==
    CASE channel = 0 -> tick
      [] channel = 1 -> f.duration - tick
      [] OTHER -> tick

\* LeftRightFade::apply
LeftRightFade_apply(f, val, tick, channel) ==
    LET y_intercept == IF f.direction = "RightLeft"
                       THEN f.min_scale ELSE f.max_scale
        slope == IF f.direction = "RightLeft"
                 THEN f.slope ELSE << -f.slope[1], f.slope[2] >>
        progress == FInt(LeftRightFade_progress(f, tick, channel))
    IN FMul(FAdd(FMul(progress, slope), y_intercept), val)

\* <dyn Filter>::apply
Filter_apply(f, val, tick, channel) ==
    CASE f.kind = "LinearFadeIn" -> LinearFadeIn_apply(f, val, tick, channel)
      [] f.kind = "LinearFadeOut" -> LinearFadeOut_apply(f, val, tick, channel)
      [] OTHER -> LeftRightFade_apply(f, val, tick, channel)

RECURSIVE FilterCollection_apply(_, _, _, _)
\* FilterCollection::apply: filters.iter().fold(value, |v, f| f.apply(v,
\* tick_count, channel)); no filter: value
FilterCollection_apply(filters, value, tick_count, channel) ==
    IF filters = <<>> THEN value
    ELSE LET n == Len(filters)
         IN Filter_apply(filters[n],
                         FilterCollection_apply(SubSeq(filters, 1, n - 1),
                                                value, tick_count, channel),
                         tick_count, channel)

\* Scales given to SoundConfig::new and LeftRightFade::new, in halves:
\* up to MaxScaleHalves/2
MaxScaleHalves == 3
\* Longest fade, in ticks: durations 0..MaxFade
MaxFade == 3
\* Channels handed to Filter::apply: 0..MaxFilterChannel
MaxFilterChannel == 2

\* a caller builds a LinearFadeIn
FadeInNew ==
    /\ f_op = "none"
    /\ \E duration \in 0..MaxFade :
          filter' = LinearFadeInNew(duration)
    /\ f_op' = "new"
    /\ UNCHANGED << f_in, f_out >>
    /\ UNCHANGED notFilterVars

\* a caller builds a LinearFadeOut that ends at tick end <= MaxTicks
FadeOutNew ==
    /\ f_op = "none"
    /\ \E end \in 0..MaxTicks :
          \E duration \in 0..(IF end < MaxFade THEN end ELSE MaxFade) :
              filter' = LinearFadeOutNew(duration, end)
    /\ f_op' = "new"
    /\ UNCHANGED << f_in, f_out >>
    /\ UNCHANGED notFilterVars

\* a caller builds a LinearFadeOut longer than its end tick: the u32
\* difference end - duration overflows.  A build with overflow checks panics
\* and no filter is built; a build without them keeps the wrapped start
FadeOutNewUnderflow ==
    /\ f_op = "none"
    /\ \E end \in 0..MaxTicks :
          \E duration \in (end + 1)..MaxFade :
              \/ /\ f_op' = "panic"
                 /\ UNCHANGED filter
              \/ /\ f_op' = "new"
                 /\ filter' = LinearFadeOutNew(duration, end)
    /\ UNCHANGED << f_in, f_out >>
    /\ UNCHANGED notFilterVars

\* a caller builds a LeftRightFade from scales -MaxScaleHalves/2 ..
\* MaxScaleHalves/2
PanNew ==
    /\ f_op = "none"
    /\ \E mn \in (-MaxScaleHalves)..MaxScaleHalves,
          mx \in (-MaxScaleHalves)..MaxScaleHalves,
          direction \in {"LeftRight", "RightLeft"},
          duration \in 0..MaxFade :
          filter' = LeftRightFadeNew(Frac(mn, 2), Frac(mx, 2), direction,
                                     duration)
    /\ f_op' = "new"
    /\ UNCHANGED << f_in, f_out >>
    /\ UNCHANGED notFilterVars

\* a caller evaluates filter.apply(val, tick, channel); on channel 1 of a
\* LeftRightFade this is the call with tick <= duration
FilterApply ==
    /\ f_op \notin {"none", "panic"}
    /\ \E v \in (-MaxValue)..MaxValue, tick \in 0..MaxTicks,
          channel \in 0..MaxFilterChannel :
          /\ (filter.kind = "LeftRightFade" /\ channel = 1) =>
                 tick <= filter.duration
          /\ f_in' = [val |-> FInt(v), tick |-> tick, channel |-> channel]
          /\ f_out' = Filter_apply(filter, FInt(v), tick, channel)
    /\ f_op' = "apply"
    /\ UNCHANGED filter
    /\ UNCHANGED notFilterVars

\* a caller evaluates apply(val, tick, 1) on a LeftRightFade with tick >
\* duration: the u32 difference self.duration - tick overflows.  A build with
\* overflow checks panics; a build without them goes on with 2^32 + duration
\* - tick as the progress, and the gain, of the order of 2^32 * slope, is
\* beyond the numbers kept in f_out
FilterApplyUnderflow ==
    /\ f_op \notin {"none", "panic"}
    /\ filter.kind = "LeftRightFade"
    /\ \E v \in (-MaxValue)..MaxValue, tick \in 0..MaxTicks :
          /\ tick > filter.duration
          /\ f_in' = [val |-> FInt(v), tick |-> tick, channel |-> 1]
    /\ f_op' \in {"panic", "wrapped"}
    /\ UNCHANGED << filter, f_out >>
    /\ UNCHANGED notFilterVars

FilterNext ==
    \/ FadeInNew
    \/ FadeOutNew
    \/ FadeOutNewUnderflow
    \/ PanNew
    \/ FilterApply
    \/ FilterApplyUnderflow

FilterSpec ==
    Init /\ [][FilterNext]_vars

\* C15: LinearFadeIn.apply(v, tick, ch) is 0 at tick 0, v * tick / duration
\* for 0 < tick < duration and v for every tick >= duration, for every
\* duration, 0 included (at duration 0 and tick 0, where the two clauses
\* meet, either value is accepted).
C15_FadeIn ==
    (f_op = "apply" /\ filter.kind = "LinearFadeIn") =>
        /\ (f_in.tick = 0 /\ filter.duration > 0) => f_out = FInt(0)
        /\ (f_in.tick = 0 /\ filter.duration = 0) =>
               f_out \in {FInt(0), f_in.val}
        /\ (0 < f_in.tick /\ f_in.tick < filter.duration) =>
               f_out = Frac(f_in.val[1] * f_in.tick, filter.duration)
        /\ (0 < f_in.tick /\ f_in.tick >= filter.duration) =>
               f_out = f_in.val

C17_PanPassThrough ==
    (/\ f_op = "apply"
     /\ filter.kind = "LeftRightFade"
     /\ filter.duration > 0
     /\ f_in.channel >= 2) =>
        f_out = f_in.val

\* C28: LinearFadeOut::new(duration, end) never overflows on end - duration
\* and builds a filter whose start is at least 0 and at most end, for every
\* duration and end, duration > end included.
C28_FadeOutStart ==
    /\ ~(f_op = "panic" /\ filter.kind = "none")
    /\ filter.kind = "LinearFadeOut" =>
           /\ 0 <= filter.start
           /\ filter.start <= filter.end

\* C26: on channels 0 and 1 of a LeftRightFade (of at least one tick, with
\* min_scale <= max_scale), in both directions and at every tick, ticks past
\* the ramp included, the gain applied is at least min_scale and at most
\* max_scale, and duration - tick on channel 1 does not go below 0.
C26_PanGainInRange ==
    (/\ f_op \in {"apply", "panic", "wrapped"}
     /\ filter.kind = "LeftRightFade"
     /\ filter.duration > 0
     /\ ~FLess(filter.max_scale, filter.min_scale)
     /\ f_in.channel \in {0, 1}) =>
        /\ f_op = "apply"
        /\ f_in.val = FInt(1) =>
               /\ ~FLess(f_out, filter.min_scale)
               /\ ~FLess(filter.max_scale, f_out)

(***************************************************************************)
(* src/sound.rs: Sinusoid.  A phase is counted in quarter turns, where sin  *)
(* is exact, so 2 * PI is 4; the frequencies drawn make every step a whole  *)
(* number of quarter turns.                                                *)
(***************************************************************************)
MAX_PHASE == 4

\* Channels of a Sinusoid: 1..MaxSinChannels
MaxSinChannels == 2
\* Steps of a Sinusoid, in quarter turns: 1..MaxStep (below MAX_PHASE)
MaxStep == 1
\* Most generate calls on one Sinusoid
MaxGenerates == 2

\* SoundConfig::new
SoundConfigNew(freq, phase, amplitude_scale) ==
    [freq |-> freq, phase |-> phase, amplitude_scale |-> amplitude_scale]

\* calc_step: MAX_PHASE * freq / rate as f32
calc_step(freq, rate) ==
    FDiv(FMul(FInt(MAX_PHASE), freq), rate)

\* f32::sin at a whole number of quarter turns
FSin(x) ==
    FInt(SinQ(x[1]))

\* Sinusoid::new
SinusoidNew(config, millis, rate) ==
    [phase |-> [i \in 1..Len(config) |-> config[i].phase],
     step |-> [i \in 1..Len(config) |-> calc_step(config[i].freq, rate)],
     amplitude |-> [i \in 1..Len(config) |-> config[i].amplitude_scale],
     filters |-> <<>>,
     ticker |-> TickerNew(duration_to_ticks(millis, rate))]

Sinusoid_filter_tick_next(s) ==
    s.ticker.tick_count + 1

\* Sinusoid::generate: the tick_count argument of self.filters.apply
Sinusoid_filter_tick(s) ==
    s.ticker.tick_count

\* Sinusoid::generate: the value returned (channels are indexed from 0)
Sinusoid_generate_out(s, channel) ==
    FilterCollection_apply(
        s.filters,
        FMul(FSin(s.phase[channel + 1]), s.amplitude[channel + 1]),
        Sinusoid_filter_tick(s), channel)

\* Sinusoid::add_filter
Sinusoid_add_filter(s, f) ==
    [s EXCEPT !.filters = Append(@, f)]

\* Sinusoid::generate: self.phase[ch] += self.step[ch]
Sinusoid_generate(s, channel) ==
    [s EXCEPT !.phase[channel + 1] = FAdd(@, s.step[channel + 1])]

\* Sinusoid::tick: self.ticker.tick()
Sinusoid_tick(s) ==
    [s EXCEPT !.ticker = Ticker_tick(@)]

\* Sinusoid::is_complete
Sinusoid_is_complete(s) ==
    Ticker_is_complete(s.ticker)

\* a caller builds a Sinusoid for the rate MaxRate: one tone of 1..MaxStep
\* quarter turns a tick and one amplitude scale on every channel, a phase
\* below 2 * PI on each
SinNew ==
    /\ sin_op = "none"
    /\ \E rate \in {MaxRate}, n \in 1..MaxSinChannels, q \in 1..MaxStep,
          a \in 0..MaxScaleHalves :
          \E ph \in [1..n -> 0..(MAX_PHASE - 1)] :
              sinusoid' =
                  SinusoidNew(
                      [i \in 1..n |->
                          SoundConfigNew(Frac(q * rate, MAX_PHASE),
                                         FInt(ph[i]), Frac(a, 2))],
                      DurationMillis, rate)
    /\ sin_op' = "new"
    /\ UNCHANGED << sin_out, sin_gens, sin_ticks, sin_passed >>
    /\ UNCHANGED notSinVars

\* a caller gives the new Sinusoid a fade-in of 1..MaxFade ticks, before it
\* is played
SinAddFilter ==
    /\ sin_op = "new"
    /\ sinusoid.filters = <<>>
    /\ \E duration \in 1..MaxFade :
          sinusoid' = Sinusoid_add_filter(sinusoid, LinearFadeInNew(duration))
    /\ UNCHANGED << sin_op, sin_out, sin_gens, sin_ticks, sin_passed >>
    /\ UNCHANGED notSinVars

\* a caller evaluates sound.generate(channel)
SinGenerate ==
    /\ sin_op # "none"
    /\ sin_gens < MaxGenerates
    /\ \E channel \in 0..(Len(sinusoid.phase) - 1) :
          /\ sin_out' = Sinusoid_generate_out(sinusoid, channel)
          /\ sinusoid' = Sinusoid_generate(sinusoid, channel)
    /\ sin_op' = "generate"
    /\ sin_gens' = sin_gens + 1
    /\ sin_passed' = Sinusoid_filter_tick(sinusoid)
    /\ UNCHANGED sin_ticks
    /\ UNCHANGED notSinVars

\* a caller evaluates sound.tick()
SinTick ==
    /\ sin_op # "none"
    /\ sinusoid.ticker.tick_count < MaxTicks
    /\ sinusoid' = Sinusoid_tick(sinusoid)
    /\ sin_op' = "tick"
    /\ sin_ticks' = sin_ticks + 1
    /\ sin_passed' = -1
    /\ UNCHANGED << sin_out, sin_gens >>
    /\ UNCHANGED notSinVars

SinNext ==
    \/ SinNew
    \/ SinAddFilter
    \/ SinGenerate
    \/ SinTick

SinSpec ==
    Init /\ [][SinNext]_vars

\* C13: immediately after tick(), the stored phase of every channel of a
\* Sinusoid is at least 0 and below 2 * PI (the initial phases are in that
\* range and every step is below 2 * PI).
C13_PhaseInRange ==
    sin_op = "tick" =>
        \A i \in 1..Len(sinusoid.phase) :
            /\ FWithin(sinusoid.phase[i], 0, MAX_PHASE)
            /\ sinusoid.phase[i] # FInt(MAX_PHASE)

\* C14: every amplitude scale a Sinusoid applies to a sample lies in [0, 1],
\* whatever scale its SoundConfig was given.
C14_ScalesClamped ==
    \A i \in 1..Len(sinusoid.amplitude) :
        FWithin(sinusoid.amplitude[i], 0, 1)

C22_GenerateKeepsPhase ==
    [][sin_gens' = sin_gens + 1 => sinusoid'.phase = sinusoid.phase]_vars

(***************************************************************************)
(* src/sound.rs: CachedPeriod.  A read index is v + eps * f32::EPSILON,    *)
(* kept as [v, eps] with v a fraction and eps a count; EPSILON is smaller  *)
(* than any difference of two v of the model.                              *)
(***************************************************************************)
\* Frequencies given to a CachedPeriod, in Hz: 1..MaxFreq
MaxFreq == 3

\* self.idx[ch].floor() as usize, for an index that is not negative
Idx_floor(i) ==
    i.v[1] \div i.v[2]

\* self.idx[ch] > self.idx_limit, with idx_limit = data_size - EPSILON
Idx_over_limit(i, data_size) ==
    \/ FLess(FInt(data_size), i.v)
    \/ i.v = FInt(data_size) /\ i.eps >= 0

\* CachedPeriod::new
CachedPeriodNew(data, channels, config, millis, rate) ==
    LET data_size == Len(data) \div channels
    IN [kind |-> "CachedPeriod", data |-> data, channels |-> channels,
        data_size |-> data_size,
        amplitude |-> [i \in 1..Len(config) |-> config[i].amplitude_scale],
        idx |-> [i \in 1..Len(config) |->
                    [v |-> FMul(Frac(config[i].phase[1],
                                     config[i].phase[2] * MAX_PHASE),
                                FInt(data_size)),
                     eps |-> 0]],
        idx_step |-> [i \in 1..Len(config) |->
                        FMul(FInt(data_size),
                             FDiv(config[i].freq, rate))],
        filters |-> <<>>,
        ticker |-> TickerNew(duration_to_ticks(millis, rate))]

\* CachedPeriod::generate: idx_f as usize * in_chs + in_ch, from 0
CachedPeriod_index(s, channel) ==
    Idx_floor(s.idx[channel + 1]) * s.channels + (channel % s.channels)

\* CachedPeriod::generate: self.period_config.data[idx] is inside the table
CachedPeriod_in_bounds(s, channel) ==
    CachedPeriod_index(s, channel) < Len(s.data)

\* CachedPeriod::generate: the value returned, for a read inside the table
\* (the EPSILON part of the fraction of idx is dropped)
CachedPeriod_generate_out(s, channel) ==
    LET i == s.idx[channel + 1]
        idx == CachedPeriod_index(s, channel)
        lower == FInt(s.data[idx + 1])
        upper == FInt(s.data[((idx + s.channels) % Len(s.data)) + 1])
        part == FAbs(FSub(i.v, FInt(Idx_floor(i))))
        val == FMul(FAdd(lower, FMul(FSub(upper, lower), part)),
                    s.amplitude[channel + 1])
    IN FilterCollection_apply(s.filters, val, s.ticker.tick_count, channel)

\* CachedPeriod::generate: self.idx[ch] += self.idx_step[ch]; one
\* subtraction of idx_limit when the sum is over it
CachedPeriod_generate(s, channel) ==
    LET i == s.idx[channel + 1]
        moved == [i EXCEPT !.v = FAdd(@, s.idx_step[channel + 1])]
    IN [s EXCEPT !.idx[channel + 1] =
           IF Idx_over_limit(moved, s.data_size)
           THEN [v |-> FSub(moved.v, FInt(s.data_size)),
                 eps |-> moved.eps + 1]
           ELSE moved]

\* CachedPeriod::tick
CachedPeriod_tick(s) ==
    [s EXCEPT !.ticker = Ticker_tick(@)]

\* a caller builds a CachedPeriod for the rate MaxRate over a table of
\* 1..MaxFrames frames: one frequency and amplitude scale on every channel,
\* a phase below 2 * PI on each
PeriodNew ==
    /\ cp_op = "none"
    /\ \E frames \in 1..MaxFrames, channels \in 1..MaxInChannels,
          n \in 1..MaxSinChannels, freq \in 1..MaxFreq,
          a \in 0..MaxScaleHalves :
          \E ph \in [1..n -> 0..(MAX_PHASE - 1)] :
              cperiod' =
                  CachedPeriodNew(
                      RampData(frames, channels), channels,
                      [i \in 1..n |->
                          SoundConfigNew(FInt(freq), FInt(ph[i]),
                                         Frac(a, 2))],
                      DurationMillis, MaxRate)
    /\ cp_op' = "new"
    /\ UNCHANGED << cp_out, cp_gens >>
    /\ UNCHANGED notPeriodVars

\* a caller evaluates sound.generate(channel); the read is inside the table
PeriodGenerate ==
    /\ cp_op \notin {"none", "panic"}
    /\ cp_gens < MaxGenerates
    /\ \E channel \in 0..(Len(cperiod.idx) - 1) :
          /\ CachedPeriod_in_bounds(cperiod, channel)
          /\ cp_out' = CachedPeriod_generate_out(cperiod, channel)
          /\ cperiod' = CachedPeriod_generate(cperiod, channel)
    /\ cp_op' = "generate"
    /\ cp_gens' = cp_gens + 1
    /\ UNCHANGED notPeriodVars

\* a caller evaluates sound.generate(channel); the slice index is out of
\* bounds and the call panics
PeriodGeneratePanic ==
    /\ cp_op \notin {"none", "panic"}
    /\ \E channel \in 0..(Len(cperiod.idx) - 1) :
          ~CachedPeriod_in_bounds(cperiod, channel)
    /\ cp_op' = "panic"
    /\ UNCHANGED << cperiod, cp_out, cp_gens >>
    /\ UNCHANGED notPeriodVars

\* a caller evaluates sound.tick(), until the voice is complete
PeriodTick ==
    /\ cp_op \notin {"none", "panic"}
    /\ ~Ticker_is_complete(cperiod.ticker)
    /\ cperiod' = CachedPeriod_tick(cperiod)
    /\ cp_op' = "tick"
    /\ UNCHANGED << cp_out, cp_gens >>
    /\ UNCHANGED notPeriodVars

PeriodNext ==
    \/ PeriodNew
    \/ PeriodGenerate
    \/ PeriodGeneratePanic
    \/ PeriodTick

PeriodSpec ==
    Init /\ [][PeriodNext]_vars

\* C23: for every positive step and every initial phase below 2 * PI, the
\* read index of every channel of a CachedPeriod is at least 0 and below the
\* number of frames of the table whenever generate may be called, and no
\* read is outside the table.
C23_IndexInRange ==
    cp_op # "none" =>
        /\ cp_op # "panic"
        /\ \A i \in 1..Len(cperiod.idx) :
               /\ Idx_floor(cperiod.idx[i]) >= 0
               /\ Idx_floor(cperiod.idx[i]) < cperiod.data_size

(***************************************************************************)
(* src/music.rs: Note::key_number.                                         *)
(***************************************************************************)
KEYS_PER_OCTAVE == 12

START_KEY_OFFSET == 8

\* enum Octave: Zero = 0 .. Eight = 8
Octave == 0..8

\* the variants of enum Note
NoteNames ==
    {"A", "ASharp", "BFlat", "B", "C", "CSharp", "DFlat", "D", "DSharp",
     "EFlat", "E", "F", "FSharp", "GFlat", "G", "GSharp", "AFlat"}

\* Note::key_number: the match on self
key_offset(name) ==
    CASE name = "C" -> 0
      [] name \in {"CSharp", "DFlat"} -> 1
      [] name = "D" -> 2
      [] name \in {"DSharp", "EFlat"} -> 3
      [] name = "E" -> 4
      [] name = "F" -> 5
      [] name \in {"FSharp", "GFlat"} -> 6
      [] name = "G" -> 7
      [] name \in {"GSharp", "AFlat"} -> 8
      [] name = "A" -> 9
      [] name \in {"ASharp", "BFlat"} -> 10
      [] name = "B" -> 11

key_number_from_zero(n) ==
    LET k == n.octave * KEYS_PER_OCTAVE + key_offset(n.name)
                 - START_KEY_OFFSET
    IN IF k < 0 \/ k > 88
       THEN [status |-> "Err", value |-> 0]
       ELSE [status |-> "Ok", value |-> k]

\* Note::key_number
key_number(n) ==
    LET k == n.octave * KEYS_PER_OCTAVE + key_offset(n.name)
                 - START_KEY_OFFSET
    IN IF k < 1 \/ k > 88
       THEN [status |-> "Err", value |-> 0]
       ELSE [status |-> "Ok", value |-> k]

\* a caller builds a Note
NoteNew ==
    /\ note.name = "none"
    /\ \E name \in NoteNames, octave \in Octave :
          note' = [name |-> name, octave |-> octave]
    /\ UNCHANGED key
    /\ UNCHANGED notMusicVars

\* a caller evaluates note.key_number()
KeyNumber ==
    /\ note.name # "none"
    /\ key' = key_number(note)
    /\ UNCHANGED note
    /\ UNCHANGED notMusicVars

MusicNext ==
    \/ NoteNew
    \/ KeyNumber

MusicSpec ==
    Init /\ [][MusicNext]_vars

\* the twelve pitch classes from C upwards, flats under their sharp
Chromatic ==
    << {"C"}, {"CSharp", "DFlat"}, {"D"}, {"DSharp", "EFlat"}, {"E"}, {"F"},
       {"FSharp", "GFlat"}, {"G"}, {"GSharp", "AFlat"}, {"A"},
       {"ASharp", "BFlat"}, {"B"} >>

\* semitones of a note name above C
Semitone(name) ==
    CHOOSE i \in 0..11 : name \in Chromatic[i + 1]

\* what key_number returned for a name and an octave
Returned(name, octave, result) ==
    (note = [name |-> name, octave |-> octave] /\ key.status # "none") =>
        key = result

\* C20: with k = octave * 12 + semitones above C - 8, key_number returns
\* Ok(k) when 1 <= k <= 88 and an error otherwise, for every note and every
\* octave 0..8: A0 -> 1, B0 -> 3, C1 -> 4, C4 -> 40, A4 -> 49, C8 -> 88, and
\* C0, G#0, C#8 -> error.
C20_KeyNumber ==
    /\ key.status # "none" =>
           LET k == note.octave * 12 + Semitone(note.name) - 8
           IN IF 1 <= k /\ k <= 88
              THEN key = [status |-> "Ok", value |-> k]
              ELSE key.status = "Err"
    /\ Returned("A", 0, [status |-> "Ok", value |-> 1])
    /\ Returned("B", 0, [status |-> "Ok", value |-> 3])
    /\ Returned("C", 1, [status |-> "Ok", value |-> 4])
    /\ Returned("C", 4, [status |-> "Ok", value |-> 40])
    /\ Returned("A", 4, [status |-> "Ok", value |-> 49])
    /\ Returned("C", 8, [status |-> "Ok", value |-> 88])
    /\ Returned("C", 0, [status |-> "Err", value |-> 0])
    /\ Returned("GSharp", 0, [status |-> "Err", value |-> 0])
    /\ Returned("CSharp", 8, [status |-> "Err", value |-> 0])

\* C20 witness: key_number of A4 returned Ok(49).
C20_Witness ==
    /\ note = [name |-> "A", octave |-> 4]
    /\ key = [status |-> "Ok", value |-> 49]

====
